---- MODULE Spec2Model ----
(***************************************************************************)
(* Model of ideation-claude's orchestration core:                          *)
(*   - IdeationOrchestrator (src/src/ideation_claude/orchestrator.py)      *)
(*   - SubAgentOrchestrator (orchestrator_subagent.py)                     *)
(*   - WebhookOrchestrator  (orchestrator_webhook.py)                      *)
(*                                                                         *)
(* Scores are integers in tenths (6.5 is 65).  The model's scores are      *)
(* multiples of 0.5, for which the weighted sum 0.6*p + 0.4*s is exact in  *)
(* tenths; floating-point rounding is not modelled.                        *)
(*                                                                         *)
(* One evaluation is modelled at a time; `mode` says which entry point     *)
(* the run uses.                                                           *)
(***************************************************************************)
EXTENDS Integers, Sequences, FiniteSets, TLC

VARIABLES
    mode,            \* which entry point this run exercises
    threshold,       \* PipelineState.threshold / self.threshold
    use_memory,      \* IdeationOrchestrator.memory is not None
    monitor,         \* a PipelineMonitor was passed to run_pipeline
    parallel,        \* run_pipeline(parallel=...)
    problem_only,    \* run_pipeline(problem_only=...) / self.problem_only
    topicBound,      \* the attribute lookup self.state.topic resolves
    problemBound,    \* the free name `problem` resolves inside run_pipeline
    pc,              \* position of the running coroutine / method
    error,           \* the exception that ended the run, or "none"
    session_id,      \* PipelineState.session_id
    invoked,         \* _run_agent calls of the run, in call order
    pv,              \* ProblemValidationResult
    sv,              \* SolutionValidationResult
    results,         \* IdeaResult (state.results)
    saved,           \* IdeaMemory.save_idea calls, in order
    phases,          \* PipelineMonitor.metrics.phases
    tasks,           \* the two coroutines run by asyncio.gather
    stage0,          \* state.session_id when the gather was entered
    agentLog,        \* mode "agent": (resume token, messages) of each _run_agent call
    sub,             \* SubAgentResult of SubAgentOrchestrator.run
    wh,              \* WebhookOrchestrator.evaluate: locals and result
    batch,           \* evaluate_ideas: its arguments, locals and call trace
    cli,             \* run_evaluation: its arguments and the evaluator calls it made
    scan,            \* _extract_score called on its own: the text and the value returned
    newState,        \* IdeationOrchestrator(...) constructed on its own: arguments and state
    pm,              \* one PhaseMetrics object and the lifecycle calls made on it
    mem,             \* memory._memory_instance and what the get_memory calls returned
    ideas,           \* the memories of one IdeaMemory user and the queries made on them
    entry,           \* main(): how its cli() call ended and what main() did about it
    wt,              \* one _wait_for_phase call: arguments, clock, position and trace
    summary,         \* the latest save_phase_summary call: the phase and the summary saved
    mon,             \* a PipelineMonitor driven through one evaluation's phases
    ev               \* evaluate_ideas seen from the agent calls: whose session each call resumes

vars == <<mode, threshold, use_memory, monitor, parallel, problem_only,
          topicBound, problemBound, pc, error, session_id, invoked, pv, sv,
          results, saved, phases, tasks, stage0, agentLog, sub, wh, batch, cli, scan, newState,
          pm, mem, ideas, entry, wt, summary, mon, ev>>

\* the state of the entry points outside the three orchestrators
otherEntries == <<batch, cli, scan, newState, pm, mem, ideas, entry, wt, mon,
                  ev>>

\* the same, and the phase summary, which only the summary steps of the
\* pipeline write
otherModes == <<otherEntries, summary>>

\* the state of the orchestrators, apart from the position and the error
coreVars == <<session_id, invoked, pv, sv, results, saved, phases, tasks, stage0,
              agentLog, sub, wh>>

cfgVars == <<mode, threshold, use_memory, monitor, parallel, problem_only,
             topicBound, problemBound>>

----------------------------------------------------------------------------
(* Bounds and input sets *)

\* messages one query() call yields at most
MaxMsgs == 1
\* _run_agent calls made directly on one orchestrator (mode "agent")
MaxCalls == 3

None == "None"
SessionIds == {"s1", "s2"}

\* thresholds in tenths: 5.0 (the default), 6.0, 7.0
Thresholds == {50, 60, 70}

\* A message of the query() stream: the session id it carries, or None.
Messages == SessionIds \cup {None}

RECURSIVE SeqsUpTo(_, _)
SeqsUpTo(S, n) ==
    IF n = 0 THEN {<<>>}
    ELSE LET shorter == SeqsUpTo(S, n - 1)
         IN  shorter \cup {Append(s, x) : s \in {t \in shorter : Len(t) = n - 1}, x \in S}

MsgSeqs == SeqsUpTo(Messages, MaxMsgs)

----------------------------------------------------------------------------
(* Agent output text.  A text is a sequence of tokens: a score phrase      *)
(* [form, n] such as "TOTAL: 6.5/10", or a word [form |-> "word", w].      *)
(* A regex of _extract_score matches inside one phrase; matches that span  *)
(* two tokens are not modelled.                                            *)

Phrase(form, n) == [form |-> form, n |-> n, w |-> ""]
Word(w) == [form |-> "word", n |-> 0, w |-> w]

\* the patterns (by name) that re.search finds in a phrase of each form
PatternsOf(form) ==
    CASE form = "table_total"    -> {"table_total"}   \* | **TOTAL** | **6.25/10** |
      [] form = "bold_total"     -> {"bold_total"}    \* **TOTAL**: **6.5/10**
      [] form = "plain_total"    -> {"plain_total"}   \* TOTAL: 6.5/10
      [] form = "plain_total_lower" -> {"plain_total"}  \* total: 6.5/10 (re.IGNORECASE)
      [] form = "bold_score"     -> {"bold_score"}    \* **Score**: 6.25/10
      [] form = "total_score"    -> {"total_score"}   \* Total Score: 6.5
      [] form = "total_score_10" -> {"total_score", "score"}  \* Total Score: 6.5/10
      [] form = "score"          -> {"score"}         \* Score: 6.5/10
      [] form = "average"        -> {"average"}       \* Average: 6.5/10
      [] OTHER                   -> {}

\* IdeationOrchestrator._extract_score: the pattern list, in order
DirectPatterns ==
    <<"table_total", "bold_total", "plain_total", "bold_score", "total_score", "score">>

\* SubAgentOrchestrator._extract_score: the pattern list, in order
\* ("Total[:\s]*" is "TOTAL[:\s]*" again under re.IGNORECASE)
SubAgentPatterns ==
    <<"table_total", "bold_total", "plain_total", "plain_total", "average",
      "bold_score", "score">>

\* re.search(pattern, text): index of the leftmost token the pattern matches, 0 if none
Search(pattern, text) ==
    LET hits == {i \in 1..Len(text) : pattern \in PatternsOf(text[i].form)}
    IN  IF hits = {} THEN 0 ELSE CHOOSE i \in hits : \A j \in hits : i <= j

\* for pattern in patterns: match = re.search(...); if match: return float(match.group(1))
\* return 0.0
RECURSIVE ExtractFrom(_, _, _)
ExtractFrom(patterns, k, text) ==
    IF k > Len(patterns) THEN 0
    ELSE IF Search(patterns[k], text) # 0 THEN text[Search(patterns[k], text)].n
    ELSE ExtractFrom(patterns, k + 1, text)

\* a faulty search that returns the number of the leftmost phrase any pattern matches
ExtractScoreLeftmost(text) ==
    LET hits == {i \in 1..Len(text) :
                    \E k \in 1..Len(DirectPatterns) : DirectPatterns[k] \in PatternsOf(text[i].form)}
    IN  IF hits = {} THEN 0 ELSE text[CHOOSE i \in hits : \A j \in hits : i <= j].n

ExtractScore(text) == ExtractFrom(DirectPatterns, 1, text)

SubAgentExtractScore(text) == ExtractFrom(SubAgentPatterns, 1, text)

\* str.upper() on the words of the model's vocabulary
Upper(w) ==
    CASE w = "eliminated" -> "ELIMINATED"
      [] w = "Eliminate"  -> "ELIMINATE"
      [] w = "passed"     -> "PASSED"
      [] OTHER            -> w

\* a faulty test that compares without upper()
IsEliminatedCaseSensitive(text) ==
    \E i \in 1..Len(text) :
        text[i].form = "word" /\ text[i].w \in {"ELIMINATE", "ELIMINATED"}

\* "ELIMINATE" in text.upper()
IsEliminated(text) ==
    \E i \in 1..Len(text) :
        text[i].form = "word" /\ Upper(text[i].w) \in {"ELIMINATE", "ELIMINATED"}

\* "ELIMINATED" in raw_output.upper()
SubAgentSaysEliminated(text) ==
    \E i \in 1..Len(text) :
        text[i].form = "word" /\ Upper(text[i].w) = "ELIMINATED"

\* texts the scoring agent of the direct orchestrator may return
ScoringTexts ==
    { <<>>,
      <<Phrase("total_score", 30)>>,
      <<Phrase("total_score", 30), Word("ELIMINATED")>>,
      <<Phrase("total_score", 80)>>,
      <<Phrase("total_score", 80), Word("eliminated")>>,
      <<Word("Eliminate")>>,
      <<Phrase("score", 60), Phrase("plain_total", 120)>> }

\* output text of a non-scoring agent: opaque, tagged with the call that produced it
Output(agent, kind) == <<agent, kind>>

\* (problem_score * 0.6) + (solution_score * 0.4), in tenths
CalculateCombinedScore(p, s) == (p * 6 + s * 4) \div 10

\* _run_agent's loop over the query() stream: each message that carries a
\* session id overwrites state.session_id
RECURSIVE FoldSession(_, _)
FoldSession(sid, msgs) ==
    IF msgs = <<>> THEN sid
    ELSE FoldSession(IF Head(msgs) # None THEN Head(msgs) ELSE sid, Tail(msgs))

\* a faulty _run_agent that never sets options.resume
ResumeTokenNever(sid) == None

\* options.resume of a _run_agent call: set only if state.session_id is truthy
ResumeToken(sid) == sid

----------------------------------------------------------------------------
(* PipelineMonitor (monitoring.py) *)

\* PipelineMonitor.start_phase: a fresh PhaseMetrics, started, stored under phase.value
StartPhase(ph, p) ==
    IF monitor THEN (p :> [status |-> "running", api_calls |-> 0]) @@ ph ELSE ph

\* PipelineMonitor.complete_phase: only a phase that is in metrics.phases
CompletePhase(ph, p, n) ==
    IF monitor /\ p \in DOMAIN ph
    THEN [ph EXCEPT ![p] = [status |-> "completed", api_calls |-> n]]
    ELSE ph

----------------------------------------------------------------------------
(* IdeationOrchestrator: the direct pipeline (mode "direct") *)

Pc(at, arg) == <<at, arg>>

\* "direct": evaluate_idea, that is run_pipeline on a new orchestrator;
\* "validation": run_problem_validation called on a new orchestrator
DirectModes == {"direct", "validation"}

\* a faulty problem validation that sizes the market before the research
ProblemPhasesMarketFirst ==
    << [name |-> "market_sizing",      agent |-> "market_analyst",     phase |-> "market_sizing"],
       [name |-> "research",           agent |-> "researcher",         phase |-> "research"],
       [name |-> "customer_discovery", agent |-> "customer_discovery", phase |-> "customer_discovery"] >>

\* run_problem_validation: phase, agent, monitor Phase, in code order
ProblemPhases ==
    << [name |-> "research",           agent |-> "researcher",         phase |-> "research"],
       [name |-> "market_sizing",      agent |-> "market_analyst",     phase |-> "market_sizing"],
       [name |-> "customer_discovery", agent |-> "customer_discovery", phase |-> "customer_discovery"] >>

\* run_pipeline, solution validation: phase, agent, monitor Phase, in code order
SolutionPhases ==
    << [name |-> "competitor_analysis", agent |-> "competitor_analyst",   phase |-> "competitor_analysis"],
       [name |-> "resource_findings",   agent |-> "resource_scout",       phase |-> "resource_scout"],
       [name |-> "hypothesis",          agent |-> "hypothesis_architect", phase |-> "hypothesis"] >>

SolutionAgents == {SolutionPhases[i].agent : i \in 1..Len(SolutionPhases)}

\* one _run_agent call: the call is logged with the prompt it was given
Call(agent, prompt) == [agent |-> agent, prompt |-> prompt]

EmptyPv == [problem_score |-> 0, problem_validated |-> FALSE, problem_eliminated |-> FALSE,
            problem_scoring_text |-> <<>>]
EmptySv == [solution_score |-> 0, solution_validated |-> FALSE, solution_eliminated |-> FALSE,
            solution_scoring_text |-> <<>>, scored |-> FALSE]
\* IdeaResult(topic=...): the dataclass defaults
EmptyResults ==
    [total_score |-> 0, eliminated |-> FALSE, decision |-> "", pivot_suggestions |-> <<>>,
     report |-> <<>>]
NoTasks == <<>>

\* the state a run raises out of
Raise(exc) ==
    /\ pc' = Pc("raised", exc)
    /\ error' = exc

\* run_pipeline's first statement, topic = self.state.topic, then the entry
\* of run_problem_validation
RunPipelineStart ==
    /\ mode = "direct"
    /\ pc = Pc("start", "")
    /\ IF topicBound
       THEN pc' = Pc("phase", ProblemPhases[1].name) /\ error' = error
       ELSE Raise("AttributeError")
    /\ UNCHANGED <<cfgVars, otherModes, session_id, invoked, pv, sv, results, saved, phases, tasks,
                   stage0, agentLog, sub, wh>>

\* f"... Key findings: {phase_output[:500]}..."
FallbackChars == 500

\* lengths of a phase output, in characters: shorter and longer than the
\* slice the fallback takes
OutputLens == {FallbackChars - 1, FallbackChars + 1}

Min(a, b) == IF a < b THEN a ELSE b

\* a faulty fallback that puts the whole phase output in the summary
GeneratePhaseSummaryWholeOutput(phase_name, len, failed) ==
    IF failed
    THEN [phase |-> phase_name, failed |-> TRUE, kind |-> "fallback",
          chars |-> len, len |-> len]
    ELSE [phase |-> phase_name, failed |-> FALSE, kind |-> "summary",
          chars |-> 0, len |-> 0]

\* _generate_phase_summary(phase_name, phase_output, problem), for a phase
\* output of len characters:
\*   try: summary = await self._run_agent("report_generator", ...); return ...
\*   except Exception: return f"Phase {phase_name} completed. Key findings:
\*                             {phase_output[:500]}..."
\* chars is the number of characters of the phase output in a fallback.
GeneratePhaseSummary(phase_name, len, failed) ==
    IF failed
    THEN [phase |-> phase_name, failed |-> TRUE, kind |-> "fallback",
          chars |-> Min(len, FallbackChars), len |-> len]
    ELSE [phase |-> phase_name, failed |-> FALSE, kind |-> "summary",
          chars |-> 0, len |-> 0]

\* phases 1-3 of run_problem_validation: start_phase, the phase's agent,
\* then (memory) save_phase_output and on to the summary, or complete_phase
ProblemPhaseAgent(i) ==
    /\ mode \in DirectModes
    /\ pc = Pc("phase", ProblemPhases[i].name)
    /\ \E msgs \in MsgSeqs : session_id' = FoldSession(session_id, msgs)
    /\ invoked' = Append(invoked, Call(ProblemPhases[i].agent, ProblemPhases[i].name))
    /\ IF use_memory
       THEN /\ phases' = StartPhase(phases, ProblemPhases[i].phase)
            /\ pc' = Pc("summary", ProblemPhases[i].name)
       ELSE /\ phases' = CompletePhase(StartPhase(phases, ProblemPhases[i].phase),
                                       ProblemPhases[i].phase, 1)
            /\ pc' = IF i < Len(ProblemPhases)
                     THEN Pc("phase", ProblemPhases[i + 1].name)
                     ELSE Pc("problem_scoring", "")
    /\ UNCHANGED <<cfgVars, otherModes, error, pv, sv, results, saved, tasks, stage0, agentLog, sub, wh>>

\* _generate_phase_summary for a problem phase (report_generator is the
\* summarising agent), save_phase_summary, complete_phase
ProblemPhaseSummary(i) ==
    /\ mode \in DirectModes
    /\ pc = Pc("summary", ProblemPhases[i].name)
    /\ \E msgs \in MsgSeqs : session_id' = FoldSession(session_id, msgs)
    /\ invoked' = Append(invoked, Call("report_generator", "summary"))
    /\ \E len \in OutputLens, failed \in BOOLEAN :
          summary' = GeneratePhaseSummary(ProblemPhases[i].name, len, failed)
    /\ phases' = CompletePhase(phases, ProblemPhases[i].phase, 1)
    /\ pc' = IF i < Len(ProblemPhases)
             THEN Pc("phase", ProblemPhases[i + 1].name)
             ELSE Pc("problem_scoring", "")
    /\ UNCHANGED <<cfgVars, otherEntries, error, pv, sv, results, saved, tasks, stage0, agentLog, sub, wh>>

\* phase 4 of run_problem_validation: the scoring agent, _extract_score,
\* _is_eliminated, complete_phase; the result goes back to run_pipeline
ProblemScoring ==
    /\ mode \in DirectModes
    /\ pc = Pc("problem_scoring", "")
    /\ \E msgs \in MsgSeqs : session_id' = FoldSession(session_id, msgs)
    /\ invoked' = Append(invoked, Call("scoring_evaluator", "problem_scoring"))
    /\ \E text \in ScoringTexts :
           pv' = [problem_score      |-> ExtractScore(text),
                  problem_eliminated |-> IsEliminated(text),
                  problem_validated  |-> ~IsEliminated(text),
                  problem_scoring_text |-> text]
    /\ phases' = CompletePhase(StartPhase(phases, "scoring"), "scoring", 1)
    /\ pc' = IF mode = "validation" THEN Pc("returned", "") ELSE Pc("problem_decision", "")
    /\ UNCHANGED <<cfgVars, otherModes, error, sv, results, saved, tasks, stage0, agentLog, sub, wh>>

\* a faulty branch that stops early only in problem_only runs
ProblemBranchNoStop(eliminated, only) ==
    IF only THEN (IF eliminated THEN "early_save" ELSE "passed_return")
    ELSE "solution"

\* a faulty branch that writes no report for a problem eliminated at
\* problem validation
ProblemBranchNoReport(eliminated, only) ==
    IF eliminated THEN "early_save"
    ELSE IF only THEN "passed_return"
    ELSE "solution"

\* the branch run_pipeline takes when run_problem_validation has returned:
\*   if problem_result.problem_eliminated: ... if not problem_only: <report> ... return
\*   if problem_only: ... return
ProblemBranch(eliminated, only) ==
    IF eliminated THEN (IF ~only THEN "early_report" ELSE "early_save")
    ELSE IF only THEN "passed_return"
    ELSE "solution"

\* run_pipeline after run_problem_validation returned: early stop when the
\* problem was eliminated, early return when problem_only, else go on
ProblemDecision ==
    /\ mode = "direct"
    /\ pc = Pc("problem_decision", "")
    /\ LET branch == ProblemBranch(pv.problem_eliminated, problem_only)
       IN  /\ results' =
                 CASE branch \in {"early_report", "early_save"} ->
                        [results EXCEPT !.eliminated = TRUE,
                                        !.decision = "ELIMINATED (Problem Not Validated)",
                                        !.total_score = pv.problem_score]
                   [] branch = "passed_return" ->
                        [results EXCEPT !.eliminated = FALSE,
                                        !.decision = "PASSED (Problem Validated)",
                                        !.total_score = pv.problem_score]
                   [] OTHER -> results
           /\ pc' = CASE branch = "early_report"  -> Pc("early_report", "")
                      [] branch = "early_save"    -> Pc("early_save", "")
                      [] branch = "passed_return" -> Pc("returned", "")
                      [] OTHER                    -> Pc("phase", SolutionPhases[1].name)
    /\ UNCHANGED <<cfgVars, otherModes, error, session_id, invoked, pv, sv, saved, phases, tasks,
                   stage0, agentLog, sub, wh>>

\* the report for a problem eliminated at problem validation
EarlyReport ==
    /\ mode = "direct"
    /\ pc = Pc("early_report", "")
    /\ \E msgs \in MsgSeqs : session_id' = FoldSession(session_id, msgs)
    /\ invoked' = Append(invoked, Call("report_generator", "report"))
    /\ results' = [results EXCEPT !.report = Output("report_generator", "report")]
    /\ pc' = Pc("early_save", "")
    /\ UNCHANGED <<cfgVars, otherModes, error, pv, sv, saved, phases, tasks, stage0, agentLog, sub, wh>>

\* save_idea(topic=problem, eliminated=True, score=problem_score, ...) and return
EarlySave ==
    /\ mode = "direct"
    /\ pc = Pc("early_save", "")
    /\ IF use_memory /\ ~problemBound
       THEN Raise("NameError") /\ saved' = saved
       ELSE /\ saved' = IF use_memory
                        THEN Append(saved, [eliminated |-> TRUE, score |-> pv.problem_score])
                        ELSE saved
            /\ pc' = Pc("returned", "")
            /\ error' = error
    /\ UNCHANGED <<cfgVars, otherModes, session_id, invoked, pv, sv, results, phases, tasks, stage0,
                   agentLog, sub, wh>>

\* solution validation phases 1-3 of run_pipeline: start_phase, the prompt
\* (which reads the name `problem`), the phase's agent, then as for a problem phase
SolutionPhaseAgent(i) ==
    /\ mode = "direct"
    /\ pc = Pc("phase", SolutionPhases[i].name)
    /\ IF ~problemBound
       THEN /\ Raise("NameError")
            /\ phases' = StartPhase(phases, SolutionPhases[i].phase)
            /\ UNCHANGED <<session_id, invoked>>
       ELSE /\ \E msgs \in MsgSeqs : session_id' = FoldSession(session_id, msgs)
            /\ invoked' = Append(invoked, Call(SolutionPhases[i].agent, SolutionPhases[i].name))
            /\ error' = error
            /\ IF use_memory
               THEN /\ phases' = StartPhase(phases, SolutionPhases[i].phase)
                    /\ pc' = Pc("summary", SolutionPhases[i].name)
               ELSE /\ phases' = CompletePhase(StartPhase(phases, SolutionPhases[i].phase),
                                               SolutionPhases[i].phase, 1)
                    /\ pc' = IF i < Len(SolutionPhases)
                             THEN Pc("phase", SolutionPhases[i + 1].name)
                             ELSE Pc("solution_scoring", "")
    /\ UNCHANGED <<cfgVars, otherModes, pv, sv, results, saved, tasks, stage0, agentLog, sub, wh>>

\* _generate_phase_summary for a solution phase, save_phase_summary, complete_phase
SolutionPhaseSummary(i) ==
    /\ mode = "direct"
    /\ pc = Pc("summary", SolutionPhases[i].name)
    /\ \E msgs \in MsgSeqs : session_id' = FoldSession(session_id, msgs)
    /\ invoked' = Append(invoked, Call("report_generator", "summary"))
    /\ \E len \in OutputLens, failed \in BOOLEAN :
          summary' = GeneratePhaseSummary(SolutionPhases[i].name, len, failed)
    /\ phases' = CompletePhase(phases, SolutionPhases[i].phase, 1)
    /\ pc' = IF i < Len(SolutionPhases)
             THEN Pc("phase", SolutionPhases[i + 1].name)
             ELSE Pc("solution_scoring", "")
    /\ UNCHANGED <<cfgVars, otherEntries, error, pv, sv, results, saved, tasks, stage0, agentLog, sub, wh>>

\* a faulty weighting: 40% problem, 60% solution
CombineScoresSwapped(p, s) == (p * 4 + s * 6) \div 10

\* results.total_score = (problem_score * 0.6) + (solution_score * 0.4), in tenths
CombineScores(p, s) == (p * 6 + s * 4) \div 10

\* phase 5: if results.eliminated: (if parallel: gather(pivot, report)
\* else: pivot, then report) else: report only
PivotBranch(eliminated, par) ==
    IF eliminated THEN (IF par THEN "gather" ELSE "pivot") ELSE "final_report"

\* the two coroutines handed to asyncio.gather, not yet running
NewTasks ==
    [t \in {"pivot", "report"} |->
        [state |-> "created", resume |-> None, input |-> <<>>, pending |-> <<>>,
         result |-> <<>>, rank |-> 0]]

\* solution_validation_summary = f"Solution validation completed. ..." and
\* save_phase_summary(problem, "solution_validation", ...): built in place,
\* with no agent call
SolutionValidationSummary ==
    [phase |-> "solution_validation", failed |-> FALSE, kind |-> "status",
     chars |-> 0, len |-> 0]

\* solution scoring: the scoring agent, _extract_score, _is_eliminated, the
\* summary of the solution validation, the combined score and verdict,
\* complete_phase; then the branch of phase 5 up
\* to its first await
SolutionScoring ==
    /\ mode = "direct"
    /\ pc = Pc("solution_scoring", "")
    /\ \E msgs \in MsgSeqs : session_id' = FoldSession(session_id, msgs)
    /\ invoked' = Append(invoked, Call("scoring_evaluator", "solution_scoring"))
    /\ \E text \in ScoringTexts :
         LET score == ExtractScore(text)
             elim  == IsEliminated(text)
             total == CombineScores(pv.problem_score, score)
             out   == pv.problem_eliminated \/ elim
         IN  /\ sv' = [solution_score |-> score, solution_eliminated |-> elim,
                       solution_validated |-> ~elim, solution_scoring_text |-> text,
                       scored |-> TRUE]
             /\ results' = [results EXCEPT
                              !.total_score = total,
                              !.eliminated = out,
                              !.pivot_suggestions =
                                  IF out THEN @ ELSE Output("none", "N/A - Idea passed evaluation")]
             /\ pc' = Pc(PivotBranch(out, parallel), "")
             /\ tasks' = IF PivotBranch(out, parallel) = "gather" THEN NewTasks ELSE tasks
    /\ stage0' = session_id'
    /\ phases' = CompletePhase(StartPhase(phases, "scoring"), "scoring", 1)
    /\ summary' = IF use_memory THEN SolutionValidationSummary ELSE summary
    /\ UNCHANGED <<cfgVars, otherEntries, error, pv, saved, agentLog, sub, wh>>

\* parallel = False: the pivot advisor, awaited before the report is started
Pivot ==
    /\ mode = "direct"
    /\ pc = Pc("pivot", "")
    /\ \E msgs \in MsgSeqs : session_id' = FoldSession(session_id, msgs)
    /\ invoked' = Append(invoked, Call("pivot_advisor", "pivot"))
    /\ results' = [results EXCEPT !.pivot_suggestions = Output("pivot_advisor", "pivot")]
    /\ pc' = Pc("final_report", "")
    /\ UNCHANGED <<cfgVars, otherModes, error, pv, sv, saved, phases, tasks, stage0, agentLog, sub, wh>>

\* the final report, sequential (after the pivot, or for a passed idea)
FinalReport ==
    /\ mode = "direct"
    /\ pc = Pc("final_report", "")
    /\ \E msgs \in MsgSeqs : session_id' = FoldSession(session_id, msgs)
    /\ invoked' = Append(invoked, Call("report_generator", "report"))
    /\ results' = [results EXCEPT !.report = Output("report_generator", "report")]
    /\ pc' = Pc("final_save", "")
    /\ UNCHANGED <<cfgVars, otherModes, error, pv, sv, saved, phases, tasks, stage0, agentLog, sub, wh>>

TaskAgent(t) == IF t = "pivot" THEN "pivot_advisor" ELSE "report_generator"

\* how many of the tasks have finished (a task's rank: those finished before it)
Finished(ts) == Cardinality({u \in DOMAIN ts : ts[u].state = "done"})

\* a task's first step: _run_agent up to its first suspension in query():
\* options.resume is read from state.session_id.  gather schedules
\* pivot_task before report_task.
TaskStart(t) ==
    /\ mode = "direct"
    /\ pc = Pc("gather", "")
    /\ tasks[t].state = "created"
    /\ t = "report" => tasks["pivot"].state # "created"
    /\ \E msgs \in MsgSeqs :
         tasks' = [tasks EXCEPT ![t] =
                      [state   |-> IF msgs = <<>> THEN "done" ELSE "running",
                       resume  |-> ResumeToken(session_id),
                       input   |-> msgs,
                       pending |-> msgs,
                       result  |-> IF msgs = <<>> THEN Output(TaskAgent(t), t) ELSE <<>>,
                       rank    |-> IF msgs = <<>> THEN Finished(tasks) ELSE 0]]
    /\ invoked' = Append(invoked, Call(TaskAgent(t), t))
    /\ UNCHANGED <<cfgVars, otherModes, pc, error, session_id, pv, sv, results, saved, phases, stage0,
                   agentLog, sub, wh>>

\* a task receives its next message: a session id it carries is stored in
\* the shared state.session_id; after the last message _run_agent returns
TaskMessage(t) ==
    /\ mode = "direct"
    /\ pc = Pc("gather", "")
    /\ tasks[t].state = "running"
    /\ session_id' = FoldSession(session_id, <<Head(tasks[t].pending)>>)
    /\ tasks' = [tasks EXCEPT
                    ![t].pending = Tail(@),
                    ![t].state = IF Len(tasks[t].pending) = 1 THEN "done" ELSE "running",
                    ![t].result = IF Len(tasks[t].pending) = 1
                                  THEN Output(TaskAgent(t), t) ELSE <<>>,
                    ![t].rank = IF Len(tasks[t].pending) = 1 THEN Finished(tasks) ELSE 0]
    /\ UNCHANGED <<cfgVars, otherModes, pc, error, invoked, pv, sv, results, saved, phases, stage0,
                   agentLog, sub, wh>>

\* a faulty await that goes on as soon as one of the two tasks has finished
GatherFirstCompleted ==
    /\ mode = "direct"
    /\ pc = Pc("gather", "")
    /\ \E t \in DOMAIN tasks : tasks[t].state = "done"
    /\ results' = [results EXCEPT !.pivot_suggestions = tasks["pivot"].result,
                                  !.report = tasks["report"].result]
    /\ pc' = Pc("final_save", "")
    /\ UNCHANGED <<cfgVars, otherModes, error, session_id, invoked, pv, sv, saved, phases, tasks,
                   stage0, agentLog, sub, wh>>

\* results.pivot_suggestions, results.report = await asyncio.gather(pivot_task, report_task)
Gather ==
    /\ mode = "direct"
    /\ pc = Pc("gather", "")
    /\ \A t \in DOMAIN tasks : tasks[t].state = "done"
    /\ results' = [results EXCEPT !.pivot_suggestions = tasks["pivot"].result,
                                  !.report = tasks["report"].result]
    /\ pc' = Pc("final_save", "")
    /\ UNCHANGED <<cfgVars, otherModes, error, session_id, invoked, pv, sv, saved, phases, tasks,
                   stage0, agentLog, sub, wh>>

\* results.decision, save_idea(eliminated=results.eliminated, score=results.total_score), return
FinalSave ==
    /\ mode = "direct"
    /\ pc = Pc("final_save", "")
    /\ results' = [results EXCEPT !.decision = IF results.eliminated THEN "ELIMINATED" ELSE "PASSED"]
    /\ saved' = IF use_memory
                THEN Append(saved, [eliminated |-> results.eliminated,
                                    score |-> results.total_score])
                ELSE saved
    /\ pc' = Pc("returned", "")
    /\ UNCHANGED <<cfgVars, otherModes, error, session_id, invoked, pv, sv, phases, tasks, stage0,
                   agentLog, sub, wh>>

NoSub == [total_score |-> 0, eliminated |-> FALSE]
\* the latest trigger-and-wait of evaluate: the name the phase is listed
\* under, the trigger's result, and the record the wait returned ("": None)
NoLast == [name |-> "", ok |-> FALSE, rec |-> ""]

NoWh == [phases_completed |-> <<>>, triggered |-> <<>>, score |-> 0, eliminated |-> FALSE,
         last |-> NoLast]

\* evaluate_ideas not called
NoBatch == [problems |-> <<>>, results |-> <<>>, trace |-> <<>>]

\* run_evaluation not called
NoCli == [topics |-> <<>>, subagent |-> FALSE, metrics |-> FALSE, verbose |-> FALSE,
          calls |-> <<>>]

\* threshold: float = 5.0
DefaultThreshold == 50

\* IdeaResult(topic=topic): the fields with their dataclass defaults (the two
\* nested validation results and the text fields other than decision left out)
IdeaResultNew(topic) ==
    [topic |-> topic, decision |-> "", total_score |-> 0, eliminated |-> FALSE,
     scoring_iterations |-> 0]

\* PipelineState(problem=problem, threshold=threshold) and its __post_init__
PipelineStateNew(problem, thr) ==
    [problem |-> problem, threshold |-> thr, session_id |-> None,
     results |-> IdeaResultNew(problem)]

\* no orchestrator constructed
NoNewState == [constructed |-> FALSE, statement |-> "", thresholdGiven |-> FALSE,
               state |-> PipelineStateNew("", DefaultThreshold)]

\* PhaseMetrics(phase=...): the dataclass defaults.  An Optional field is a
\* sequence: <<>> for None, <<x>> for the value x.
PhaseMetricsNew ==
    [status |-> "pending", start_time |-> <<>>, end_time |-> <<>>, duration |-> <<>>,
     api_calls |-> 0, tokens_used |-> <<>>, error |-> <<>>]

\* a PhaseMetrics just created, no lifecycle call made on it
NoPm == [m |-> PhaseMetricsNew, ops |-> <<>>]

\* _memory_instance: Optional[IdeaMemory] = None, and no get_memory call made.
\* instance is <<>> for None, else <<the IdeaMemory object>>; created counts
\* the IdeaMemory objects constructed, which names them.
NoMem == [instance |-> <<>>, created |-> 0, calls |-> <<>>, returned |-> <<>>]

\* an empty memory store, no query made
NoIdeas == [store |-> <<>>,
            check |-> [called |-> FALSE, results |-> <<>>, returned |-> <<>>],
            listing |-> [called |-> FALSE, limit |-> 0, returned |-> <<>>]]

\* main() not called
NoEntry == [called |-> FALSE, cli |-> "", raised |-> "", fallback |-> FALSE]

\* _wait_for_phase not called
NoWt == [timeout |-> 0, poll_interval |-> 0, start_time |-> 0, now |-> 0,
         at |-> "idle", trace |-> <<>>, value |-> <<>>, backs |-> 0]

\* no phase summary saved
NoSummary == [phase |-> "", failed |-> FALSE, kind |-> "", chars |-> 0, len |-> 0]

\* a new PipelineMonitor: EvaluationMetrics with no phases, total_api_calls = 0;
\* step counts the monitor calls made, passed adds up the api_calls arguments
NoMon == [phases |-> <<>>, total_api_calls |-> 0, step |-> 0, passed |-> 0,
          completed |-> FALSE]

\* no agent call made: the latest _run_agent call of evaluate_ideas (the
\* problem it belongs to, how many calls that problem has had, its resume
\* token and the problem whose evaluation captured that token), and the
\* current orchestrator's state.session_id with the problem that captured it;
\* prior: the previous problem's orchestrator ended holding a session id
NoCall == [problem |-> 0, nth |-> 0, resume |-> "None", from |-> 0]
NoEv == [n |-> 0, problem |-> 0, calls |-> 0, session_id |-> "None", owner |-> 0,
         prior |-> FALSE, call |-> NoCall]

\* _extract_score not called
NoScan == [text |-> <<>>, score |-> 0, called |-> FALSE]

\* the orchestrators' state right after construction, before the entry point runs
InitCore ==
    /\ error = "none"
    /\ session_id = None
    /\ invoked = <<>>
    /\ pv = EmptyPv
    /\ sv = EmptySv
    /\ results = EmptyResults
    /\ saved = <<>>
    /\ phases = <<>>
    /\ tasks = NoTasks
    /\ stage0 = None
    /\ agentLog = <<>>
    /\ sub = NoSub
    /\ wh = NoWh

\* the entry points outside the orchestrators, not called - all but the one named
InitOthersExcept(v) ==
    /\ IF v = "batch" THEN TRUE ELSE batch = NoBatch
    /\ IF v = "cli" THEN TRUE ELSE cli = NoCli
    /\ IF v = "scan" THEN TRUE ELSE scan = NoScan
    /\ IF v = "newState" THEN TRUE ELSE newState = NoNewState
    /\ IF v = "pm" THEN TRUE ELSE pm = NoPm
    /\ IF v = "mem" THEN TRUE ELSE mem = NoMem
    /\ IF v = "ideas" THEN TRUE ELSE ideas = NoIdeas
    /\ IF v = "entry" THEN TRUE ELSE entry = NoEntry
    /\ IF v = "wt" THEN TRUE ELSE wt = NoWt
    /\ IF v = "summary" THEN TRUE ELSE summary = NoSummary
    /\ IF v = "mon" THEN TRUE ELSE mon = NoMon
    /\ IF v = "ev" THEN TRUE ELSE ev = NoEv

\* a step of one entry point leaves the state of the others alone
OthersUnchangedExcept(v) ==
    /\ IF v = "batch" THEN TRUE ELSE UNCHANGED batch
    /\ IF v = "cli" THEN TRUE ELSE UNCHANGED cli
    /\ IF v = "scan" THEN TRUE ELSE UNCHANGED scan
    /\ IF v = "newState" THEN TRUE ELSE UNCHANGED newState
    /\ IF v = "pm" THEN TRUE ELSE UNCHANGED pm
    /\ IF v = "mem" THEN TRUE ELSE UNCHANGED mem
    /\ IF v = "ideas" THEN TRUE ELSE UNCHANGED ideas
    /\ IF v = "entry" THEN TRUE ELSE UNCHANGED entry
    /\ IF v = "wt" THEN TRUE ELSE UNCHANGED wt
    /\ IF v = "summary" THEN TRUE ELSE UNCHANGED summary
    /\ IF v = "mon" THEN TRUE ELSE UNCHANGED mon
    /\ IF v = "ev" THEN TRUE ELSE UNCHANGED ev

InitState == InitCore /\ InitOthersExcept("none")

\* IdeationOrchestrator(problem, threshold, use_memory) followed by
\* run_pipeline(parallel, monitor, problem_only).  Python resolves the
\* attribute self.state.topic and the free name `problem` when the statement
\* runs: PipelineState declares no field `topic` and run_pipeline binds no
\* `problem`, so in a process that runs the package as it is both lookups
\* fail (topicBound = FALSE, problemBound = FALSE).  The other values are a
\* process whose caller has bound them to the problem statement, which is
\* what the rest of run_pipeline is written against.
InitDirect ==
    /\ mode = "direct"
    /\ threshold \in Thresholds
    /\ use_memory \in BOOLEAN
    /\ monitor \in BOOLEAN
    /\ parallel \in BOOLEAN
    /\ problem_only \in BOOLEAN
    /\ topicBound \in BOOLEAN
    /\ problemBound \in BOOLEAN
    /\ pc = Pc("start", "")
    /\ InitState

\* IdeationOrchestrator(problem, threshold, use_memory) followed by
\* run_problem_validation(monitor=...)
InitValidation ==
    /\ mode = "validation"
    /\ threshold \in Thresholds
    /\ use_memory \in BOOLEAN
    /\ monitor \in BOOLEAN
    /\ parallel = TRUE
    /\ problem_only = FALSE
    /\ topicBound = FALSE
    /\ problemBound = FALSE
    /\ pc = Pc("phase", ProblemPhases[1].name)
    /\ InitState

NextDirect ==
    \/ RunPipelineStart
    \/ \E i \in 1..Len(ProblemPhases) : ProblemPhaseAgent(i) \/ ProblemPhaseSummary(i)
    \/ ProblemScoring
    \/ ProblemDecision
    \/ EarlyReport
    \/ EarlySave
    \/ \E i \in 1..Len(SolutionPhases) : SolutionPhaseAgent(i) \/ SolutionPhaseSummary(i)
    \/ SolutionScoring
    \/ Pivot
    \/ FinalReport
    \/ \E t \in {"pivot", "report"} : TaskStart(t) \/ TaskMessage(t)
    \/ Gather
    \/ FinalSave

SpecDirect == (InitDirect \/ InitValidation) /\ [][NextDirect]_vars

----------------------------------------------------------------------------
(* _run_agent called directly, one call after another (mode "agent") *)

\* one whole _run_agent call: options.resume from state.session_id, then the
\* loop over the messages of query()
RunAgentCall ==
    /\ mode = "agent"
    /\ Len(agentLog) < MaxCalls
    /\ \E msgs \in MsgSeqs :
         /\ agentLog' = Append(agentLog, [resume |-> ResumeToken(session_id), msgs |-> msgs])
         /\ session_id' = FoldSession(session_id, msgs)
    /\ UNCHANGED <<cfgVars, otherModes, pc, error, invoked, pv, sv, results, saved, phases, tasks,
                   stage0, sub, wh>>

InitAgent ==
    /\ mode = "agent"
    /\ threshold = 50
    /\ use_memory = FALSE
    /\ monitor = FALSE
    /\ parallel = TRUE
    /\ problem_only = FALSE
    /\ topicBound = FALSE
    /\ problemBound = FALSE
    /\ pc = Pc("idle", "")
    /\ InitState

NextAgent == RunAgentCall

SpecAgent == InitAgent /\ [][NextAgent]_vars

----------------------------------------------------------------------------
(* SubAgentOrchestrator.run (mode "subagent") *)

\* texts the coordinator may return
SubAgentTexts ==
    ScoringTexts \cup
    { <<Phrase("plain_total", 50)>>,
      <<Phrase("plain_total", 60)>>,
      <<Phrase("plain_total", 70), Word("ELIMINATED")>>,
      <<Phrase("average", 65)>>,
      <<Phrase("total_score_10", 55), Word("passed")>> }

\* eliminated = total_score < self.threshold or "ELIMINATED" in raw_output.upper()
SubAgentEliminated(score, text) == score < threshold \/ SubAgentSaysEliminated(text)

\* run(): the coordinator's whole output, the score and the verdict
SubAgentRun ==
    /\ mode = "subagent"
    /\ pc = Pc("start", "")
    /\ \E text \in SubAgentTexts :
         sub' = [total_score |-> SubAgentExtractScore(text),
                 eliminated  |-> SubAgentEliminated(SubAgentExtractScore(text), text)]
    /\ pc' = Pc("returned", "")
    /\ UNCHANGED <<cfgVars, otherModes, error, session_id, invoked, pv, sv, results, saved, phases,
                   tasks, stage0, agentLog, wh>>

InitSubAgent ==
    /\ mode = "subagent"
    /\ threshold \in Thresholds
    /\ use_memory = FALSE
    /\ monitor = FALSE
    /\ parallel = TRUE
    /\ problem_only \in BOOLEAN
    /\ topicBound = FALSE
    /\ problemBound = FALSE
    /\ pc = Pc("start", "")
    /\ InitState

NextSubAgent == SubAgentRun

----------------------------------------------------------------------------
(* WebhookOrchestrator.evaluate (mode "webhook") *)

PROBLEM_VALIDATION_AGENTS == <<"researcher", "market-analyst", "customer-discovery">>
SOLUTION_VALIDATION_AGENTS == <<"competitor-analyst", "resource-scout", "hypothesis-architect">>
SCORING_AGENT == "scoring-evaluator"

\* problem_score = 6.0  # Placeholder
ProblemScorePlaceholder == 60
\* solution_score = 7.0  # Placeholder
SolutionScorePlaceholder == 70

\* a faulty combination that adds a point for a solution score above the
\* problem score
WhCombinedScoreBonus(p, s) == ((p * 6 + s * 4) \div 10) + (IF s > p THEN 10 ELSE 0)

\* combined_score = (problem_score * 0.6) + (solution_score * 0.4), in tenths
WhCombinedScore(p, s) == (p * 6 + s * 4) \div 10

\* a faulty comparison that also eliminates a score equal to the threshold
WhBelowOrEqual(score) == score <= threshold

\* if problem_score < self.threshold / if combined_score < self.threshold
WhBelow(score) == score < threshold

\* scripts/analysis_tools.py: "pass" if score >= threshold else "fail"
EvaluateScoreDecision(score, thr) == IF score >= thr THEN "pass" ELSE "fail"

\* _trigger_agent followed, when it returned True, by _wait_for_phase:
\* ok is the trigger's result, rec the record the wait returned
\* ("": it returned None at the timeout)
Triggered(w, agent) == [w EXCEPT !.triggered = Append(@, agent)]
Completed(w, name) == [w EXCEPT !.phases_completed = Append(@, name)]
Waited(w, name, ok, rec) == [w EXCEPT !.last = [name |-> name, ok |-> ok, rec |-> rec]]

\* the record _create_session adds to the session's memories
SessionRecord == "session"

\* the completion record of the run that is listed under a name; the scoring
\* agent runs twice and both runs write a record of phase scoring_evaluator
RecordOf(name) ==
    CASE name = "scoring-evaluator-problem"  -> "scoring_evaluator:1"
      [] name = "scoring-evaluator-solution" -> "scoring_evaluator:2"
      [] OTHER -> name

\* the memories of the session's user while the run listed under `name` is
\* waited for: the session record, the completion records of the runs
\* already seen complete, and the record of the run itself once written
SessionMemories(w, name) ==
    {SessionRecord, RecordOf(name)}
        \cup {RecordOf(w.phases_completed[k]) : k \in 1..Len(w.phases_completed)}

\* what _wait_for_phase can return: client.search(query, user_id=user_id,
\* limit=1) ranks the user's memories by similarity to the query and the
\* first result is returned whatever it is; None ("") at the timeout
WaitResults(w, name) == {""} \cup SessionMemories(w, name)

\* for agent in <list>: if trigger: result = wait; if result: append
WhAgentStep(agents, i, after) ==
    /\ pc = Pc("wh_agent", agents[i])
    /\ \E ok \in BOOLEAN :
       \E rec \in IF ok THEN WaitResults(wh, agents[i]) ELSE {""} :
         wh' = Waited(IF ok /\ rec # ""
                      THEN Completed(Triggered(wh, agents[i]), agents[i])
                      ELSE Triggered(wh, agents[i]),
                      agents[i], ok, rec)
    /\ pc' = IF i < Len(agents) THEN Pc("wh_agent", agents[i + 1]) ELSE after

\* _create_session, then on to the first problem validation agent
WhStart ==
    /\ mode = "webhook"
    /\ pc = Pc("start", "")
    /\ pc' = Pc("wh_agent", PROBLEM_VALIDATION_AGENTS[1])
    /\ UNCHANGED <<cfgVars, otherModes, error, session_id, invoked, pv, sv, results, saved, phases,
                   tasks, stage0, agentLog, sub, wh>>

\* Phase 1: the loop over PROBLEM_VALIDATION_AGENTS
WhProblemAgent(i) ==
    /\ mode = "webhook"
    /\ WhAgentStep(PROBLEM_VALIDATION_AGENTS, i, Pc("wh_scoring", "problem"))
    /\ UNCHANGED <<cfgVars, otherModes, error, session_id, invoked, pv, sv, results, saved, phases,
                   tasks, stage0, agentLog, sub>>

\* scoring for the problem phase, the placeholder score, and the branch:
\* eliminated at the problem phase, problem_only, or on to phase 2
WhProblemScoring ==
    /\ mode = "webhook"
    /\ pc = Pc("wh_scoring", "problem")
    /\ \E ok \in BOOLEAN :
       \E rec \in IF ok THEN WaitResults(wh, "scoring-evaluator-problem") ELSE {""} :
         LET w1 == Waited(IF ok /\ rec # ""
                          THEN Completed(Triggered(wh, SCORING_AGENT), "scoring-evaluator-problem")
                          ELSE Triggered(wh, SCORING_AGENT),
                          "scoring-evaluator-problem", ok, rec)
         IN  IF WhBelow(ProblemScorePlaceholder)
             THEN /\ wh' = w1
                  /\ pc' = Pc("wh_pivot", "problem")
             ELSE IF problem_only
             THEN /\ wh' = [w1 EXCEPT !.score = ProblemScorePlaceholder, !.eliminated = FALSE]
                  /\ pc' = Pc("returned", "")
             ELSE /\ wh' = w1
                  /\ pc' = Pc("wh_agent", SOLUTION_VALIDATION_AGENTS[1])
    /\ UNCHANGED <<cfgVars, otherModes, error, session_id, invoked, pv, sv, results, saved, phases,
                   tasks, stage0, agentLog, sub>>

\* Phase 2: the loop over SOLUTION_VALIDATION_AGENTS
WhSolutionAgent(i) ==
    /\ mode = "webhook"
    /\ WhAgentStep(SOLUTION_VALIDATION_AGENTS, i, Pc("wh_scoring", "solution"))
    /\ UNCHANGED <<cfgVars, otherModes, error, session_id, invoked, pv, sv, results, saved, phases,
                   tasks, stage0, agentLog, sub>>

\* final scoring, the combined placeholder score and the verdict
WhSolutionScoring ==
    /\ mode = "webhook"
    /\ pc = Pc("wh_scoring", "solution")
    /\ \E ok \in BOOLEAN :
       \E rec \in IF ok THEN WaitResults(wh, "scoring-evaluator-solution") ELSE {""} :
         LET w1 == Waited(IF ok /\ rec # ""
                          THEN Completed(Triggered(wh, SCORING_AGENT), "scoring-evaluator-solution")
                          ELSE Triggered(wh, SCORING_AGENT),
                          "scoring-evaluator-solution", ok, rec)
             combined == WhCombinedScore(ProblemScorePlaceholder, SolutionScorePlaceholder)
         IN  /\ wh' = [w1 EXCEPT !.score = combined, !.eliminated = WhBelow(combined)]
             /\ pc' = IF WhBelow(combined) THEN Pc("wh_pivot", "solution")
                                           ELSE Pc("wh_report", "solution")
    /\ UNCHANGED <<cfgVars, otherModes, error, session_id, invoked, pv, sv, results, saved, phases,
                   tasks, stage0, agentLog, sub>>

\* if trigger("pivot-advisor"): wait; phases_completed.append("pivot-advisor")
WhPivot(at) ==
    /\ mode = "webhook"
    /\ pc = Pc("wh_pivot", at)
    /\ \E ok \in BOOLEAN :
       \E rec \in IF ok THEN WaitResults(wh, "pivot-advisor") ELSE {""} :
         wh' = Waited(IF ok THEN Completed(Triggered(wh, "pivot-advisor"), "pivot-advisor")
                            ELSE Triggered(wh, "pivot-advisor"),
                      "pivot-advisor", ok, rec)
    /\ pc' = Pc("wh_report", at)
    /\ UNCHANGED <<cfgVars, otherModes, error, session_id, invoked, pv, sv, results, saved, phases,
                   tasks, stage0, agentLog, sub>>

\* if trigger("report-generator"): wait; append; return WebhookOrchestratorResult
WhReport(at) ==
    /\ mode = "webhook"
    /\ pc = Pc("wh_report", at)
    /\ \E ok \in BOOLEAN :
       \E rec \in IF ok THEN WaitResults(wh, "report-generator") ELSE {""} :
         LET w1 == Waited(IF ok THEN Completed(Triggered(wh, "report-generator"), "report-generator")
                                ELSE Triggered(wh, "report-generator"),
                          "report-generator", ok, rec)
         IN  wh' = IF at = "problem"
                   THEN [w1 EXCEPT !.score = ProblemScorePlaceholder, !.eliminated = TRUE]
                   ELSE w1
    /\ pc' = Pc("returned", "")
    /\ UNCHANGED <<cfgVars, otherModes, error, session_id, invoked, pv, sv, results, saved, phases,
                   tasks, stage0, agentLog, sub>>

InitWebhook ==
    /\ mode = "webhook"
    /\ threshold \in Thresholds
    /\ use_memory = TRUE
    /\ monitor = FALSE
    /\ parallel = FALSE
    /\ problem_only \in BOOLEAN
    /\ topicBound = FALSE
    /\ problemBound = FALSE
    /\ pc = Pc("start", "")
    /\ InitState

NextWebhook ==
    \/ WhStart
    \/ \E i \in 1..Len(PROBLEM_VALIDATION_AGENTS) : WhProblemAgent(i)
    \/ WhProblemScoring
    \/ \E i \in 1..Len(SOLUTION_VALIDATION_AGENTS) : WhSolutionAgent(i)
    \/ WhSolutionScoring
    \/ \E at \in {"problem", "solution"} : WhPivot(at) \/ WhReport(at)

----------------------------------------------------------------------------
(* evaluate_ideas (mode "batch") *)

\* problems evaluate_ideas is given at most
MaxProblems == 2

\* problem statements
Problems == {"p1", "p2"}

\* a faulty loop that puts each new result in front of the earlier ones
CollectInFront(rs, r) == <<r>> \o rs

\* results.append(result)
Collect(rs, r) == Append(rs, r)

\* what evaluate_idea(problem, threshold, verbose) does with the defaults
\* use_memory = True, problem_only = False (see the direct pipeline):
\* AttributeError at self.state.topic, NameError at the first use of
\* `problem`, or an IdeaResult for the problem
EvaluateIdeaOutcomes(problem) ==
    IF ~topicBound THEN {[raised |-> "AttributeError"]}
    ELSE IF ~problemBound THEN {[raised |-> "NameError"]}
    ELSE {[raised |-> "none", topic |-> problem, eliminated |-> e] : e \in BOOLEAN}

\* for i, problem in enumerate(problems, 1): ... await evaluate_idea(...) is
\* entered; after the last problem: return results
EvaluateIdeasLoop ==
    /\ mode = "batch"
    /\ pc = Pc("ideas_loop", "")
    /\ IF Len(batch.results) < Len(batch.problems)
       THEN /\ batch' = [batch EXCEPT !.trace =
                            Append(@, <<"call", Len(batch.results) + 1>>)]
            /\ pc' = Pc("evaluate_idea", "")
       ELSE /\ pc' = Pc("returned", "")
            /\ UNCHANGED batch
    /\ UNCHANGED <<cfgVars, coreVars, error>>
    /\ OthersUnchangedExcept("batch")

\* evaluate_idea comes back: result = ...; results.append(result)
EvaluateIdeaDone ==
    /\ mode = "batch"
    /\ pc = Pc("evaluate_idea", "")
    /\ LET i == Len(batch.results) + 1 IN
       \E out \in EvaluateIdeaOutcomes(batch.problems[i]) :
          IF out.raised # "none"
          THEN /\ Raise(out.raised)
               /\ UNCHANGED batch
          ELSE /\ batch' = [batch EXCEPT
                               !.results = Collect(@, [topic |-> out.topic,
                                                       eliminated |-> out.eliminated]),
                               !.trace = Append(@, <<"return", i>>)]
               /\ pc' = Pc("ideas_loop", "")
               /\ UNCHANGED error
    /\ UNCHANGED <<cfgVars, coreVars>>
    /\ OthersUnchangedExcept("batch")

\* evaluate_ideas(problems, threshold, verbose)
InitBatch ==
    /\ mode = "batch"
    /\ threshold \in Thresholds
    /\ use_memory = TRUE
    /\ monitor = FALSE
    /\ parallel = TRUE
    /\ problem_only = FALSE
    /\ topicBound \in BOOLEAN
    /\ problemBound \in BOOLEAN
    /\ pc = Pc("ideas_loop", "")
    /\ InitCore
    /\ InitOthersExcept("batch")
    /\ \E ps \in SeqsUpTo(Problems, MaxProblems) : batch = [NoBatch EXCEPT !.problems = ps]

NextBatch == EvaluateIdeasLoop \/ EvaluateIdeaDone

----------------------------------------------------------------------------
(* main.run_evaluation (mode "cli") *)

\* a faulty routing that sends a single topic to the batch evaluator
RouteAllToBatch(subagent, n) ==
    IF subagent THEN "evaluate_with_subagents" ELSE "evaluate_ideas"

\* the evaluator run_evaluation hands n topics to:
\*   if subagent: ... elif len(topics) == 1: ... else: ...
Route(subagent, n) ==
    IF subagent THEN "evaluate_with_subagents"
    ELSE IF n = 1 THEN "evaluate_idea"
    ELSE "evaluate_ideas"

\* one call of an evaluator: positional arguments and the keywords passed
EvaluatorCall(fn, args, kwargs) == [fn |-> fn, args |-> args, kwargs |-> kwargs]

\* sub-agent mode: for topic in topics: result = await
\* evaluate_with_subagents(topic, threshold, verbose) (inside a
\* PipelineMonitor when metrics is on); results.append(result)
RunEvaluationSubagent ==
    /\ mode = "cli"
    /\ pc = Pc("run_evaluation", "")
    /\ Route(cli.subagent, Len(cli.topics)) = "evaluate_with_subagents"
    /\ IF Len(cli.calls) < Len(cli.topics)
       THEN /\ cli' = [cli EXCEPT !.calls = Append(@,
                          EvaluatorCall("evaluate_with_subagents",
                              <<cli.topics[Len(cli.calls) + 1], threshold, cli.verbose>>, {}))]
            /\ UNCHANGED pc
       ELSE /\ pc' = Pc("returned", "")
            /\ UNCHANGED cli
    /\ UNCHANGED <<cfgVars, coreVars, error>>
    /\ OthersUnchangedExcept("cli")

\* direct mode: evaluate_idea(topics[0], threshold, verbose[, monitor=monitor])
\* for one topic, evaluate_ideas(topics, threshold, verbose) otherwise
RunEvaluationDirect ==
    /\ mode = "cli"
    /\ pc = Pc("run_evaluation", "")
    /\ LET fn == Route(cli.subagent, Len(cli.topics)) IN
       /\ fn # "evaluate_with_subagents"
       /\ cli' = [cli EXCEPT !.calls = Append(@,
                     IF fn = "evaluate_idea"
                     THEN EvaluatorCall(fn, <<cli.topics[1], threshold, cli.verbose>>,
                                        IF cli.metrics THEN {"monitor"} ELSE {})
                     ELSE EvaluatorCall(fn, <<cli.topics, threshold, cli.verbose>>, {}))]
    /\ pc' = Pc("evaluating", "")
    /\ UNCHANGED <<cfgVars, coreVars, error>>
    /\ OthersUnchangedExcept("cli")

\* the direct evaluator comes back (it raises what evaluate_idea raises, if
\* it has a problem to evaluate); then the summary and the optional report
RunEvaluationSummary ==
    /\ mode = "cli"
    /\ pc = Pc("evaluating", "")
    /\ IF cli.topics = <<>> \/ (topicBound /\ problemBound)
       THEN pc' = Pc("returned", "") /\ UNCHANGED error
       ELSE Raise(IF topicBound THEN "NameError" ELSE "AttributeError")
    /\ UNCHANGED <<cfgVars, coreVars, otherModes>>

\* run_evaluation(topics, threshold, output, verbose, subagent, metrics)
InitCli ==
    /\ mode = "cli"
    /\ threshold \in Thresholds
    /\ use_memory = TRUE
    /\ monitor = FALSE
    /\ parallel = TRUE
    /\ problem_only = FALSE
    /\ topicBound \in BOOLEAN
    /\ problemBound \in BOOLEAN
    /\ pc = Pc("run_evaluation", "")
    /\ InitCore
    /\ InitOthersExcept("cli")
    /\ \E ts \in SeqsUpTo(Problems, MaxProblems), sa \in BOOLEAN, me \in BOOLEAN, vb \in BOOLEAN :
          cli = [NoCli EXCEPT !.topics = ts, !.subagent = sa, !.metrics = me, !.verbose = vb]

NextCli == RunEvaluationSubagent \/ RunEvaluationDirect \/ RunEvaluationSummary

----------------------------------------------------------------------------
(* IdeationOrchestrator._extract_score on an arbitrary text (mode "extract") *)

\* tokens of a text handed to _extract_score at most
MaxTokens == 2

\* the phrase forms and numbers (in tenths) the texts are built from
ScorePhraseForms ==
    {"table_total", "bold_total", "plain_total", "plain_total_lower", "bold_score",
     "total_score", "total_score_10", "score"}

ScoreTokens ==
    {Phrase(f, n) : f \in ScorePhraseForms, n \in {30, 80}} \cup {Word("passed")}

\* score = self._extract_score(scoring_text)
ExtractScoreCall ==
    /\ mode = "extract"
    /\ ~scan.called
    /\ scan' = [scan EXCEPT !.score = ExtractScore(scan.text), !.called = TRUE]
    /\ UNCHANGED <<cfgVars, coreVars, pc, error>>
    /\ OthersUnchangedExcept("scan")

InitExtract ==
    /\ mode = "extract"
    /\ threshold = 50
    /\ use_memory = FALSE
    /\ monitor = FALSE
    /\ parallel = TRUE
    /\ problem_only = FALSE
    /\ topicBound = FALSE
    /\ problemBound = FALSE
    /\ pc = Pc("idle", "")
    /\ InitCore
    /\ InitOthersExcept("scan")
    /\ \E text \in SeqsUpTo(ScoreTokens, MaxTokens) : scan = [NoScan EXCEPT !.text = text]

NextExtract == ExtractScoreCall

----------------------------------------------------------------------------
(* IdeationOrchestrator.__init__ on its own (mode "construct") *)

\* self.state = PipelineState(problem=problem, threshold=threshold), with the
\* threshold the caller gave or the default
Construct ==
    /\ mode = "construct"
    /\ ~newState.constructed
    /\ newState' = [newState EXCEPT
                       !.constructed = TRUE,
                       !.state = PipelineStateNew(newState.statement,
                                    IF newState.thresholdGiven THEN threshold
                                    ELSE DefaultThreshold)]
    /\ UNCHANGED <<cfgVars, coreVars, pc, error>>
    /\ OthersUnchangedExcept("newState")

InitConstruct ==
    /\ mode = "construct"
    /\ threshold \in Thresholds
    /\ use_memory \in BOOLEAN
    /\ monitor = FALSE
    /\ parallel = TRUE
    /\ problem_only = FALSE
    /\ topicBound = FALSE
    /\ problemBound = FALSE
    /\ pc = Pc("idle", "")
    /\ InitCore
    /\ InitOthersExcept("newState")
    /\ \E p \in Problems, given \in BOOLEAN :
          newState = [NoNewState EXCEPT !.statement = p, !.thresholdGiven = given]

NextConstruct == Construct

----------------------------------------------------------------------------
(* PhaseMetrics lifecycle (mode "phase") *)

\* lifecycle calls made on the object at most
MaxOps == 3

\* readings of time.time() range over 1..MaxTime
MaxTime == 2

\* time.time(): the wall clock.  It is not monotonic - a later call returns a
\* lower value if the system clock was set back in between - so a reading is
\* any value of the range.
Times == 1..MaxTime

\* if self.start_time: self.duration = self.end_time - self.start_time
Elapsed(m, now) ==
    IF m.start_time # <<>> /\ m.start_time[1] # 0 THEN <<now - m.start_time[1]>>
    ELSE m.duration

\* PhaseMetrics.start
PmStart(m, now) == [m EXCEPT !.status = "running", !.start_time = <<now>>]

\* PhaseMetrics.complete
PmComplete(m, now, api_calls, tokens_used) ==
    [m EXCEPT !.status = "completed", !.end_time = <<now>>, !.duration = Elapsed(m, now),
              !.api_calls = api_calls, !.tokens_used = tokens_used]

\* PhaseMetrics.fail
PmFail(m, now, err) ==
    [m EXCEPT !.status = "failed", !.end_time = <<now>>, !.duration = Elapsed(m, now),
              !.error = <<err>>]

\* PhaseMetrics.skip
PmSkip(m) == [m EXCEPT !.status = "skipped"]

\* one lifecycle call with its arguments
PmOp(op, api_calls, tokens_used, err) ==
    [op |-> op, api_calls |-> api_calls, tokens_used |-> tokens_used, error |-> err]

PhaseStart ==
    /\ mode = "phase"
    /\ Len(pm.ops) < MaxOps
    /\ \E now \in Times :
          pm' = [m |-> PmStart(pm.m, now), ops |-> Append(pm.ops, PmOp("start", 0, <<>>, ""))]
    /\ UNCHANGED <<cfgVars, coreVars, pc, error>>
    /\ OthersUnchangedExcept("pm")

PhaseComplete ==
    /\ mode = "phase"
    /\ Len(pm.ops) < MaxOps
    /\ \E now \in Times, n \in {0, 1}, tok \in {<<>>, <<1000>>} :
          pm' = [m |-> PmComplete(pm.m, now, n, tok),
                 ops |-> Append(pm.ops, PmOp("complete", n, tok, ""))]
    /\ UNCHANGED <<cfgVars, coreVars, pc, error>>
    /\ OthersUnchangedExcept("pm")

PhaseFail ==
    /\ mode = "phase"
    /\ Len(pm.ops) < MaxOps
    /\ \E now \in Times :
          pm' = [m |-> PmFail(pm.m, now, "Test error"),
                 ops |-> Append(pm.ops, PmOp("fail", 0, <<>>, "Test error"))]
    /\ UNCHANGED <<cfgVars, coreVars, pc, error>>
    /\ OthersUnchangedExcept("pm")

PhaseSkip ==
    /\ mode = "phase"
    /\ Len(pm.ops) < MaxOps
    /\ pm' = [m |-> PmSkip(pm.m), ops |-> Append(pm.ops, PmOp("skip", 0, <<>>, ""))]
    /\ UNCHANGED <<cfgVars, coreVars, pc, error>>
    /\ OthersUnchangedExcept("pm")

\* metrics = PhaseMetrics(phase=phase)
InitPhase ==
    /\ mode = "phase"
    /\ threshold = 50
    /\ use_memory = FALSE
    /\ monitor = TRUE
    /\ parallel = TRUE
    /\ problem_only = FALSE
    /\ topicBound = FALSE
    /\ problemBound = FALSE
    /\ pc = Pc("idle", "")
    /\ InitCore
    /\ InitOthersExcept("pm")
    /\ pm = NoPm

NextPhase == PhaseStart \/ PhaseComplete \/ PhaseFail \/ PhaseSkip

----------------------------------------------------------------------------
(* memory.get_memory (mode "singleton") *)

\* get_memory calls made at most
MaxGets == 3

\* user_id arguments: None (the default) or a name
UserIds == {None, "u1", "u2"}

\* os.getenv("MEM0_USER_ID", "ideation_claude")
EnvUserId == "ideation_claude"

\* IdeaMemory.__init__: self.user_id = user_id or os.getenv(...)
IdeaMemoryNew(id, user_id) ==
    [id |-> id, user_id |-> IF user_id = None THEN EnvUserId ELSE user_id]

\* a faulty test that also replaces the instance when another user is asked for
NeedsInstanceForUser(instance, user_id) ==
    instance = <<>> \/ (user_id # None /\ instance[1].user_id # user_id)

\* if _memory_instance is None
NeedsInstance(instance, user_id) == instance = <<>>

\* get_memory(user_id)
GetMemory ==
    /\ mode = "singleton"
    /\ Len(mem.calls) < MaxGets
    /\ \E user_id \in UserIds :
         LET fresh == NeedsInstance(mem.instance, user_id)
             inst  == IF fresh THEN IdeaMemoryNew(mem.created + 1, user_id)
                      ELSE mem.instance[1]
         IN  mem' = [instance |-> <<inst>>,
                     created  |-> IF fresh THEN mem.created + 1 ELSE mem.created,
                     calls    |-> Append(mem.calls, user_id),
                     returned |-> Append(mem.returned, inst)]
    /\ UNCHANGED <<cfgVars, coreVars, pc, error>>
    /\ OthersUnchangedExcept("mem")

\* the module just imported
InitSingleton ==
    /\ mode = "singleton"
    /\ threshold = 50
    /\ use_memory = TRUE
    /\ monitor = FALSE
    /\ parallel = TRUE
    /\ problem_only = FALSE
    /\ topicBound = FALSE
    /\ problemBound = FALSE
    /\ pc = Pc("idle", "")
    /\ InitCore
    /\ InitOthersExcept("mem")
    /\ mem = NoMem

NextSingleton == GetMemory

----------------------------------------------------------------------------
(* IdeaMemory queries (mode "store") *)

\* memories in the store at most
MaxMemories == 2

\* the limit argument of get_eliminated_ideas ranges over 0..MaxLimit
MaxLimit == 2

\* what a memory of the store is: an evaluated idea saved by save_idea with
\* eliminated = True or False, a phase output saved by save_phase_output, or
\* a memory without metadata
MemoryKinds == {"eliminated", "passed", "phase_output", "bare"}

\* meta = top_result.get("metadata", {}); meta.get("eliminated", False):
\* save_idea stores "eliminated": eliminated, save_phase_output stores no
\* such key
MetaEliminated(m) == m.kind = "eliminated"

\* seq[:limit]
Prefix(seq, limit) == SubSeq(seq, 1, IF limit < Len(seq) THEN limit ELSE Len(seq))

\* search_similar_ideas(topic, limit=1): what the similarity search ranks
\* first among the user's memories, if there are any
SearchTop(store) == {<<>>} \cup {<<store[k]>> : k \in 1..Len(store)}

\* check_if_similar_eliminated(topic)
CheckIfSimilarEliminated ==
    /\ mode = "store"
    /\ ~ideas.check.called
    /\ \E found \in SearchTop(ideas.store) :
          ideas' = [ideas EXCEPT !.check =
                       [called |-> TRUE, results |-> found,
                        returned |-> IF found # <<>> /\ MetaEliminated(found[1])
                                     THEN <<found[1]>> ELSE <<>>]]
    /\ UNCHANGED <<cfgVars, coreVars, pc, error>>
    /\ OthersUnchangedExcept("ideas")

\* get_eliminated_ideas(limit): memories = self.memory.get_all(user_id=...);
\* return [m for m in memories.get("results", [])[:limit]]
GetEliminatedIdeas ==
    /\ mode = "store"
    /\ ~ideas.listing.called
    /\ \E limit \in 0..MaxLimit :
          ideas' = [ideas EXCEPT !.listing =
                       [called |-> TRUE, limit |-> limit,
                        returned |-> Prefix(ideas.store, limit)]]
    /\ UNCHANGED <<cfgVars, coreVars, pc, error>>
    /\ OthersUnchangedExcept("ideas")

\* an IdeaMemory whose user has some memories stored
InitStore ==
    /\ mode = "store"
    /\ threshold = 50
    /\ use_memory = TRUE
    /\ monitor = FALSE
    /\ parallel = TRUE
    /\ problem_only = FALSE
    /\ topicBound = FALSE
    /\ problemBound = FALSE
    /\ pc = Pc("idle", "")
    /\ InitCore
    /\ InitOthersExcept("ideas")
    /\ \E kinds \in SeqsUpTo(MemoryKinds, MaxMemories) :
          ideas = [NoIdeas EXCEPT !.store = [k \in 1..Len(kinds) |->
                                               [id |-> k, kind |-> kinds[k]]]]

NextStore == CheckIfSimilarEliminated \/ GetEliminatedIdeas

----------------------------------------------------------------------------
(* The program: one of the entry points *)

----------------------------------------------------------------------------
(* Mode "main": the console entry point main() of main.py *)

\* the ways the Click group cli() can end: it returns, or it raises
\* SystemExit with code 0 (--help, --version), SystemExit with a non-zero
\* code (a usage error), or a click.ClickException
CliOutcomes == {"return", "SystemExit(0)", "SystemExit(2)", "ClickException"}

\* main() is the single statement `cli()`: it has no try block, so whatever
\* cli() raises leaves main() unchanged, and it calls no other handler.
Propagated(outcome) == IF outcome = "return" THEN "" ELSE outcome

\* def main(): cli()
Main ==
    /\ mode = "main"
    /\ ~entry.called
    /\ \E outcome \in CliOutcomes :
          entry' = [called |-> TRUE, cli |-> outcome,
                    raised |-> Propagated(outcome), fallback |-> FALSE]
    /\ UNCHANGED <<cfgVars, coreVars, pc, error>>
    /\ OthersUnchangedExcept("entry")

\* a process about to call main()
InitMain ==
    /\ mode = "main"
    /\ threshold = DefaultThreshold
    /\ use_memory = FALSE
    /\ monitor = FALSE
    /\ parallel = TRUE
    /\ problem_only = FALSE
    /\ topicBound = FALSE
    /\ problemBound = FALSE
    /\ pc = Pc("idle", "")
    /\ InitCore
    /\ InitOthersExcept("entry")
    /\ entry = NoEntry

NextMain == Main

----------------------------------------------------------------------------
(* WebhookOrchestrator._wait_for_phase (mode "wait") *)

\* the largest timeout and poll_interval a call is given, in clock ticks
MaxTimeout == 3
MaxPollInterval == 2

\* time.time() is the wall clock: during a sleep it may be set back (by one
\* tick), at most this many times in one call
MaxSetBacks == 1

\* the records a search can return as results[0]
Records == {"r1", "r2"}

\* what one poll does: MemoryClient(...) or client.search(...) raises, or the
\* search returns no results, or it returns a record
PollOutcomes == {"error", "empty"} \cup Records

\* a faulty handler that lets the exception of a poll leave the function
AfterPollReraise(outcome) ==
    IF outcome \in Records THEN "returned"
    ELSE IF outcome = "error" THEN "raised"
    ELSE "sleep"

\* try: ... if results.get("results"): return result
\* except Exception: ...
\* time.sleep(poll_interval)
AfterPoll(outcome) == IF outcome \in Records THEN "returned" ELSE "sleep"

\* user_id = ...; start_time = time.time()
WaitStart ==
    /\ mode = "wait"
    /\ wt.at = "idle"
    /\ wt' = [wt EXCEPT !.start_time = wt.now, !.at = "test"]
    /\ UNCHANGED <<cfgVars, coreVars, pc, error>>
    /\ OthersUnchangedExcept("wt")

\* while time.time() - start_time < timeout: ... ; after the loop: return None
WaitTest ==
    /\ mode = "wait"
    /\ wt.at = "test"
    /\ wt' = IF wt.now - wt.start_time < wt.timeout
             THEN [wt EXCEPT !.at = "poll"]
             ELSE [wt EXCEPT !.at = "returned", !.value = <<None>>]
    /\ UNCHANGED <<cfgVars, coreVars, pc, error>>
    /\ OthersUnchangedExcept("wt")

\* the body of the try block, and the except clause
WaitPoll ==
    /\ mode = "wait"
    /\ wt.at = "poll"
    /\ \E outcome \in PollOutcomes :
          wt' = [wt EXCEPT !.trace = Append(@, outcome),
                           !.at = AfterPoll(outcome),
                           !.value = IF AfterPoll(outcome) = "returned"
                                     THEN <<outcome>> ELSE @]
    /\ UNCHANGED <<cfgVars, coreVars, pc, error>>
    /\ OthersUnchangedExcept("wt")

\* time.sleep(poll_interval)
WaitSleep ==
    /\ mode = "wait"
    /\ wt.at = "sleep"
    /\ \E back \in 0..1 :
          /\ back = 1 => wt.backs < MaxSetBacks
          /\ wt' = [wt EXCEPT !.now = @ + wt.poll_interval - back,
                              !.backs = @ + back,
                              !.trace = Append(@, "sleep"),
                              !.at = "test"]
    /\ UNCHANGED <<cfgVars, coreVars, pc, error>>
    /\ OthersUnchangedExcept("wt")

\* a WebhookOrchestrator about to call _wait_for_phase(phase, session_id,
\* timeout, poll_interval)
InitWait ==
    /\ mode = "wait"
    /\ threshold = DefaultThreshold
    /\ use_memory = TRUE
    /\ monitor = FALSE
    /\ parallel = FALSE
    /\ problem_only = FALSE
    /\ topicBound = FALSE
    /\ problemBound = FALSE
    /\ pc = Pc("idle", "")
    /\ InitCore
    /\ InitOthersExcept("wt")
    /\ \E t \in 0..MaxTimeout, p \in 1..MaxPollInterval, n \in 0..1 :
          wt = [NoWt EXCEPT !.timeout = t, !.poll_interval = p, !.now = n]

NextWait == WaitStart \/ WaitTest \/ WaitPoll \/ WaitSleep

----------------------------------------------------------------------------
(* PipelineMonitor over one evaluation (mode "metrics") *)

\* the largest api_calls value a complete_phase call is given
MaxApiCalls == 2

\* the monitor phases of one evaluation in the order run_problem_validation
\* and run_pipeline start and complete them: Phase.SCORING once for the
\* problem and, in a full run, once more for the solution
MonitorPhases ==
    [i \in 1..Len(ProblemPhases) |-> ProblemPhases[i].phase] \o <<"scoring">> \o
    (IF problem_only THEN <<>>
     ELSE [i \in 1..Len(SolutionPhases) |-> SolutionPhases[i].phase] \o <<"scoring">>)

\* sum(p.api_calls for p in self.phases.values())
RECURSIVE SumApiCalls(_, _)
SumApiCalls(ph, keys) ==
    IF keys = {} THEN 0
    ELSE LET k == CHOOSE x \in keys : TRUE
         IN  ph[k].api_calls + SumApiCalls(ph, keys \ {k})

\* the phase the next pair of monitor calls is about
MonPhase == MonitorPhases[(mon.step \div 2) + 1]

\* monitor.start_phase(phase, description)
MonStartPhase ==
    /\ mode = "metrics"
    /\ ~mon.completed
    /\ mon.step < 2 * Len(MonitorPhases)
    /\ mon.step % 2 = 0
    /\ mon' = [mon EXCEPT !.phases = StartPhase(@, MonPhase), !.step = @ + 1]
    /\ UNCHANGED <<cfgVars, coreVars, pc, error>>
    /\ OthersUnchangedExcept("mon")

\* monitor.complete_phase(phase, api_calls=n)
MonCompletePhase ==
    /\ mode = "metrics"
    /\ ~mon.completed
    /\ mon.step % 2 = 1
    /\ \E n \in 1..MaxApiCalls :
          mon' = [mon EXCEPT !.phases = CompletePhase(@, MonPhase, n),
                             !.passed = @ + n,
                             !.step = @ + 1]
    /\ UNCHANGED <<cfgVars, coreVars, pc, error>>
    /\ OthersUnchangedExcept("mon")

\* monitor.complete_evaluation(final_score, eliminated), once every phase of
\* the run is completed: EvaluationMetrics.complete
MonCompleteEvaluation ==
    /\ mode = "metrics"
    /\ ~mon.completed
    /\ mon.step = 2 * Len(MonitorPhases)
    /\ mon' = [mon EXCEPT !.total_api_calls = SumApiCalls(mon.phases, DOMAIN mon.phases),
                          !.completed = TRUE]
    /\ UNCHANGED <<cfgVars, coreVars, pc, error>>
    /\ OthersUnchangedExcept("mon")

\* with PipelineMonitor(topic, threshold, verbose, "direct") as monitor
InitMetrics ==
    /\ mode = "metrics"
    /\ threshold = DefaultThreshold
    /\ use_memory = FALSE
    /\ monitor = TRUE
    /\ parallel = TRUE
    /\ problem_only \in BOOLEAN
    /\ topicBound = FALSE
    /\ problemBound = FALSE
    /\ pc = Pc("idle", "")
    /\ InitCore
    /\ InitOthersExcept("mon")
    /\ mon = NoMon

NextMetrics == MonStartPhase \/ MonCompletePhase \/ MonCompleteEvaluation

----------------------------------------------------------------------------
(* evaluate_ideas and the sessions of its agent calls (mode "sessions") *)

\* a faulty evaluate_idea that keeps the session of the previous problem's
\* orchestrator for the next one
NewStateSessionKept(prev) == prev

\* evaluate_idea builds IdeationOrchestrator(problem, ...), whose __init__
\* builds a PipelineState of its own: session_id = None
NewStateSession(prev) == None

\* whether a query() stream delivered a session id
Captures(msgs) == \E k \in 1..Len(msgs) : msgs[k] # None

\* evaluate_ideas enters evaluate_idea for the next problem: a new
\* orchestrator; the previous problem has had its agent calls
SessNewOrchestrator ==
    /\ mode = "sessions"
    /\ ev.problem < ev.n
    /\ ev.problem > 0 => ev.calls > 0
    /\ ev' = [ev EXCEPT !.problem = @ + 1,
                        !.calls = 0,
                        !.prior = ev.session_id # None,
                        !.session_id = NewStateSession(@),
                        !.owner = IF NewStateSession(ev.session_id) = None THEN 0 ELSE @]
    /\ UNCHANGED <<cfgVars, coreVars, pc, error>>
    /\ OthersUnchangedExcept("ev")

\* one _run_agent call of the current problem's pipeline
SessRunAgent ==
    /\ mode = "sessions"
    /\ ev.problem > 0
    /\ ev.calls < MaxCalls
    /\ \E msgs \in MsgSeqs :
          ev' = [ev EXCEPT !.calls = @ + 1,
                           !.call = [problem |-> ev.problem, nth |-> ev.calls + 1,
                                     resume |-> ResumeToken(ev.session_id),
                                     from |-> ev.owner],
                           !.session_id = FoldSession(@, msgs),
                           !.owner = IF Captures(msgs) THEN ev.problem ELSE @]
    /\ UNCHANGED <<cfgVars, coreVars, pc, error>>
    /\ OthersUnchangedExcept("ev")

\* evaluate_ideas(problems, ...) for n problems, in a process where
\* run_pipeline gets as far as its agent calls
InitSessions ==
    /\ mode = "sessions"
    /\ threshold = DefaultThreshold
    /\ use_memory = FALSE
    /\ monitor = FALSE
    /\ parallel = TRUE
    /\ problem_only = FALSE
    /\ topicBound = TRUE
    /\ problemBound = TRUE
    /\ pc = Pc("idle", "")
    /\ InitCore
    /\ InitOthersExcept("ev")
    /\ \E n \in 1..MaxProblems : ev = [NoEv EXCEPT !.n = n]

NextSessions == SessNewOrchestrator \/ SessRunAgent

----------------------------------------------------------------------------
Init ==
    \/ InitDirect \/ InitValidation \/ InitAgent \/ InitSubAgent \/ InitWebhook
    \/ InitBatch \/ InitCli \/ InitExtract \/ InitConstruct
    \/ InitPhase \/ InitSingleton \/ InitStore \/ InitMain
    \/ InitWait \/ InitMetrics \/ InitSessions

Next ==
    \/ NextDirect \/ NextAgent \/ NextSubAgent \/ NextWebhook
    \/ NextBatch \/ NextCli \/ NextExtract \/ NextConstruct
    \/ NextPhase \/ NextSingleton \/ NextStore \/ NextMain
    \/ NextWait \/ NextMetrics \/ NextSessions

Spec == Init /\ [][Next]_vars

\* the thread that runs _wait_for_phase keeps running: it calls nothing that
\* the model lets block
FairSpec == Spec /\ WF_vars(NextWait)

----------------------------------------------------------------------------
(* Properties *)

Returned == pc = Pc("returned", "")

\* the agents a call log names
Agents(log) == {log[i].agent : i \in 1..Len(log)}

Range(seq) == {seq[i] : i \in 1..Len(seq)}

\* the scoring call with this prompt has been made
Scored(prompt) == \E i \in 1..Len(invoked) : invoked[i].prompt = prompt

HasTasks == DOMAIN tasks # {}

C2_BelowThresholdEliminated ==
    (mode \in DirectModes) =>
        /\ (Scored("problem_scoring") /\ pv.problem_score < threshold) => pv.problem_eliminated
        /\ (sv.scored /\ sv.solution_score < threshold) =>
               (sv.solution_eliminated /\ results.eliminated)
        /\ (mode = "direct" /\ Returned /\ pv.problem_score < threshold) => results.eliminated

\* C3: a result of SubAgentOrchestrator.run with score < threshold is
\* eliminated; a result of WebhookOrchestrator.evaluate is eliminated exactly
\* when score < threshold, that is exactly when evaluate_score_decision says
\* "fail", so a score equal to the threshold passes.
C3_ThresholdVerdict ==
    /\ (mode = "subagent" /\ Returned) =>
           (sub.total_score < threshold => sub.eliminated)
    /\ (mode = "webhook" /\ Returned) =>
           /\ wh.eliminated <=> wh.score < threshold
           /\ wh.eliminated <=> EvaluateScoreDecision(wh.score, threshold) = "fail"

C3_Witness ==
    /\ mode = "webhook"
    /\ Returned
    /\ wh.score = threshold
    /\ ~wh.eliminated

RECURSIVE Flat(_, _)
Flat(log, k) == IF k = 0 THEN <<>> ELSE Flat(log, k - 1) \o log[k].msgs

\* the session id carried by the last message that carries one, None if none does
LastId(msgs) ==
    LET carrying == {i \in 1..Len(msgs) : msgs[i] # None}
    IN  IF carrying = {} THEN None
        ELSE msgs[CHOOSE i \in carrying : \A j \in carrying : j <= i]

\* C5: in a sequence of sequential _run_agent calls on one orchestrator each
\* call resumes with the session id most recently reported by a message of
\* an earlier call (None if none was reported), and a call whose messages
\* carry no session id leaves the stored token as it was.
C5_ResumesMostRecentSession ==
    (mode = "agent") =>
        /\ \A k \in 1..Len(agentLog) : agentLog[k].resume = LastId(Flat(agentLog, k - 1))
        /\ session_id = LastId(Flat(agentLog, Len(agentLog)))
        /\ (Len(agentLog) > 0 /\ LastId(agentLog[Len(agentLog)].msgs) = None) =>
               session_id = agentLog[Len(agentLog)].resume

C5_Witness ==
    /\ mode = "agent"
    /\ Len(agentLog) = 3
    /\ agentLog[1].msgs = <<"s1">>
    /\ agentLog[2].msgs = <<"s2">>
    /\ agentLog[3].resume = "s2"
    /\ agentLog[3].msgs = <<None>>
    /\ session_id = "s2"

C8_NeverRaises ==
    (mode = "direct") => error = "none"

MatchesOf(k, text) ==
    {i \in 1..Len(text) : DirectPatterns[k] \in PatternsOf(text[i].form)}

\* C13: _extract_score returns the number captured by the first pattern of
\* its list, in list order, that matches anywhere in the text (in any letter
\* case) - at that pattern's leftmost match, wherever patterns later in the
\* list match - and 0.0 when no pattern matches.
C13_FirstPatternInPriorityOrder ==
    (mode = "extract" /\ scan.called) =>
        LET present == {k \in 1..Len(DirectPatterns) : MatchesOf(k, scan.text) # {}}
        IN  IF present = {} THEN scan.score = 0
            ELSE LET k == CHOOSE a \in present : \A b \in present : a <= b
                     i == CHOOSE a \in MatchesOf(k, scan.text) :
                              \A b \in MatchesOf(k, scan.text) : a <= b
                 IN  scan.score = scan.text[i].n

C13_Witness ==
    /\ mode = "extract"
    /\ scan.called
    /\ scan.text = <<Phrase("score", 30), Phrase("plain_total_lower", 80)>>
    /\ scan.score = 80

\* the words of the model's vocabulary that contain "eliminate" in some letter case
EliminateWords == {"eliminate", "Eliminate", "ELIMINATE", "eliminated", "ELIMINATED"}

ContainsEliminate(text) ==
    \E i \in 1..Len(text) : text[i].form = "word" /\ text[i].w \in EliminateWords

\* C14: after a scoring step of the direct orchestrator the eliminated flag
\* is true exactly when the scoring text contains "eliminate" in some letter
\* case (an empty text is not eliminated), and the validated flag is the
\* negation of the eliminated flag.
C14_EliminatedIffTextSaysSo ==
    (mode \in DirectModes) =>
        /\ Scored("problem_scoring") =>
              /\ pv.problem_eliminated <=> ContainsEliminate(pv.problem_scoring_text)
              /\ pv.problem_validated <=> ~pv.problem_eliminated
              /\ pv.problem_scoring_text = <<>> => ~pv.problem_eliminated
        /\ sv.scored =>
              /\ sv.solution_eliminated <=> ContainsEliminate(sv.solution_scoring_text)
              /\ sv.solution_validated <=> ~sv.solution_eliminated
              /\ sv.solution_scoring_text = <<>> => ~sv.solution_eliminated

C14_Witness ==
    /\ mode = "direct"
    /\ sv.scored
    /\ sv.solution_scoring_text = <<Phrase("total_score", 80), Word("eliminated")>>
    /\ sv.solution_eliminated
    /\ ~sv.solution_validated
    /\ pv.problem_scoring_text = <<>>
    /\ pv.problem_validated

\* C15: the state of a newly created orchestrator records the statement it
\* was created with as its topic (state.topic and state.results.topic both
\* equal it), has the threshold given or else 5.0, has session_id = None, and
\* holds an empty result: total_score 0.0, eliminated false,
\* scoring_iterations 0.
C15_NewStateRecordsTopic ==
    (mode = "construct" /\ newState.constructed) =>
        LET st == newState.state IN
        /\ "topic" \in DOMAIN st
        /\ st.topic = newState.statement
        /\ st.results.topic = newState.statement
        /\ st.threshold = IF newState.thresholdGiven THEN threshold ELSE 50
        /\ st.session_id = None
        /\ st.results.total_score = 0
        /\ ~st.results.eliminated
        /\ st.results.scoring_iterations = 0

\* the status each lifecycle call leaves
StatusAfter(op) ==
    CASE op = "start"    -> "running"
      [] op = "complete" -> "completed"
      [] op = "fail"     -> "failed"
      [] op = "skip"     -> "skipped"

\* what C16 says of everything but the sign of the duration
C16_StatusAndFields ==
    (mode = "phase") =>
        IF pm.ops = <<>> THEN pm.m.status = "pending"
        ELSE LET last == pm.ops[Len(pm.ops)] IN
             /\ pm.m.status = StatusAfter(last.op)
             /\ last.op = "complete" =>
                   pm.m.api_calls = last.api_calls /\ pm.m.tokens_used = last.tokens_used
             /\ last.op = "fail" => pm.m.error = <<last.error>>
             /\ (last.op \in {"complete", "fail"}
                   /\ \E k \in 1..Len(pm.ops) : pm.ops[k].op = "start") =>
                   /\ pm.m.duration # <<>>
                   /\ pm.m.duration[1] = pm.m.end_time[1] - pm.m.start_time[1]

\* C16: a phase's status reflects the last lifecycle call made on it
\* (pending on creation, running after start, completed after complete with
\* the given api_calls and tokens_used, failed after fail with the error,
\* skipped after skip), and whenever complete or fail follows a start the
\* duration is end_time - start_time, which is non-negative.
C16_StatusFollowsLastCall ==
    /\ C16_StatusAndFields
    /\ (mode = "phase" /\ pm.m.duration # <<>>) => pm.m.duration[1] >= 0

\* C17: after the first call of get_memory every later call returns the
\* same IdeaMemory instance whatever user_id it is given, so the instance's
\* user_id is the one the first call fixed.
C17_OneInstance ==
    (mode = "singleton" /\ mem.calls # <<>>) =>
        /\ \A k \in 1..Len(mem.returned) : mem.returned[k] = mem.returned[1]
        /\ mem.instance = <<mem.returned[1]>>
        /\ mem.created = 1
        /\ mem.returned[1].user_id =
               IF mem.calls[1] = None THEN EnvUserId ELSE mem.calls[1]

C17_Witness ==
    /\ mode = "singleton"
    /\ mem.calls = <<"u1", "u2", None>>
    /\ mem.returned[3] = mem.returned[1]
    /\ mem.returned[2].user_id = "u1"

\* C18: check_if_similar_eliminated returns the top search result whenever
\* the similarity search returns at least one result, and None when the
\* search returns none.
C18_TopResultWheneverFound ==
    (mode = "store" /\ ideas.check.called) =>
        IF ideas.check.results # <<>>
        THEN ideas.check.returned = <<ideas.check.results[1]>>
        ELSE ideas.check.returned = <<>>

\* C19: get_eliminated_ideas returns only memories of ideas that were
\* eliminated - never a passed idea or a phase output - and at most `limit`
\* of them.
C19_OnlyEliminatedIdeas ==
    (mode = "store" /\ ideas.listing.called) =>
        /\ \A k \in 1..Len(ideas.listing.returned) :
              ideas.listing.returned[k].kind = "eliminated"
        /\ Len(ideas.listing.returned) <= ideas.listing.limit

\* C20: main() runs the plain evaluation handler exactly when cli() ends
\* with a non-zero SystemExit or a ClickException; a SystemExit with code 0
\* leaves main() as it is, without the handler; and a cli() that returns
\* never runs the handler.
C20_FallbackExactlyOnFailure ==
    (mode = "main" /\ entry.called) =>
        /\ entry.fallback <=> entry.cli \in {"SystemExit(2)", "ClickException"}
        /\ entry.fallback => entry.raised = ""
        /\ entry.cli = "SystemExit(0)" => entry.raised = "SystemExit(0)"

\* the polls of a trace, in order
Polls(trace) == SelectSeq(trace, LAMBDA e : e # "sleep")

\* C21 (safety part): no exception leaves _wait_for_phase; a record it
\* returns is the first non-empty search result of its polls; None is
\* returned only when every poll was empty or failed and the timeout has
\* elapsed; and a poll that raises is followed by a sleep of poll_interval,
\* after which the loop goes on (to another poll while the timeout has not
\* elapsed).
C21_WaitSafety ==
    mode = "wait" =>
        /\ wt.at # "raised"
        /\ error = "none"
        /\ \A i \in 1..Len(wt.trace) :
              wt.trace[i] \in {"error", "empty"} =>
                  IF i < Len(wt.trace) THEN wt.trace[i + 1] = "sleep"
                  ELSE wt.at = "sleep"
        /\ \A i \in 1..Len(wt.trace) :
              (wt.trace[i] = "sleep" /\ i = Len(wt.trace)) =>
                  \/ wt.at = "test"
                  \/ wt.at = "poll" /\ wt.now - wt.start_time < wt.timeout
                  \/ wt.at = "returned" /\ wt.value = <<None>>
        /\ wt.at = "returned" =>
              LET polls == Polls(wt.trace) IN
              IF wt.value = <<None>>
              THEN /\ \A i \in 1..Len(polls) : polls[i] \notin Records
                   /\ wt.now - wt.start_time >= wt.timeout
              ELSE /\ Len(polls) > 0
                   /\ wt.value = <<polls[Len(polls)]>>
                   /\ polls[Len(polls)] \in Records
                   /\ \A i \in 1..(Len(polls) - 1) : polls[i] \notin Records

\* C21: _wait_for_phase always terminates, returning the first non-empty
\* search result of its polls or None once the timeout has elapsed; an
\* error raised by a poll never reaches the caller but is followed by a wait
\* of poll_interval and the next round of the polling loop.
C21_WaitTerminates ==
    /\ []C21_WaitSafety
    /\ [](mode = "wait" => <>(wt.at = "returned"))

\* a call that returned None after a poll that raised and a clock set-back
C21_Witness ==
    /\ mode = "wait"
    /\ wt.at = "returned"
    /\ wt.value = <<None>>
    /\ wt.backs > 0
    /\ \E i \in 1..Len(wt.trace) : wt.trace[i] = "error"

\* the agents of the two validation phases, in the order the pipeline is
\* documented to run them
FixedOrder ==
    << "researcher", "market_analyst", "customer_discovery", "scoring_evaluator",
       "competitor_analyst", "resource_scout", "hypothesis_architect", "scoring_evaluator" >>

\* the calls of a log that are not summarisation calls, and their agents
PhaseCalls(log) == SelectSeq(log, LAMBDA c : c.prompt # "summary")
AgentsInOrder(log) == [i \in 1..Len(log) |-> log[i].agent]

C22_WitnessSequential ==
    /\ mode = "direct"
    /\ sv.scored
    /\ ~parallel
    /\ ~use_memory
    /\ Len(invoked) = 8

\* the position the pipeline is at after the summary of a phase
AfterSummary(name) ==
    CASE name = "research"            -> Pc("phase", "market_sizing")
      [] name = "market_sizing"       -> Pc("phase", "customer_discovery")
      [] name = "customer_discovery"  -> Pc("problem_scoring", "")
      [] name = "competitor_analysis" -> Pc("phase", "resource_findings")
      [] name = "resource_findings"   -> Pc("phase", "hypothesis")
      [] name = "hypothesis"          -> Pc("solution_scoring", "")

FinalReports(log) ==
    Cardinality({i \in 1..Len(log) : log[i] = Call("report_generator", "report")})

C24_WitnessFull ==
    /\ mode = "direct"
    /\ Returned
    /\ ~problem_only
    /\ sv.scored
    /\ results.eliminated
    /\ parallel

\* a problem-only run that returned
C24_WitnessProblemOnly ==
    /\ mode = "direct"
    /\ Returned
    /\ problem_only
    /\ Len(invoked) >= 4

\* the last element of a non-empty sequence
Last(seq) == seq[Len(seq)]

\* the latest trigger-and-wait of evaluate listed its phase as completed
ListedLatest ==
    /\ Len(wh.phases_completed) > 0
    /\ Last(wh.phases_completed) = wh.last.name

\* C25: a name is listed in phases_completed only if the trigger of its
\* agent succeeded and the wait for its phase returned a record before the
\* timeout; a phase whose wait timed out is never listed.
C25_ListedOnlyIfObserved ==
    (mode = "webhook" /\ ListedLatest) => (wh.last.ok /\ wh.last.rec # "")

\* C26: 'scoring-evaluator-solution' is listed only after the completion
\* record of the second run of the scoring agent has been observed: the
\* record of the first scoring run and the session record never satisfy the
\* second wait.
C26_SecondScoringObserved ==
    (mode = "webhook" /\ ListedLatest /\ wh.last.name = "scoring-evaluator-solution") =>
        wh.last.rec = "scoring_evaluator:2"

\* C27: when an evaluation is completed through PipelineMonitor,
\* total_api_calls is the sum of the api_calls values passed to all the
\* complete_phase calls of the evaluation, also when a phase (SCORING) was
\* started more than once.
C27_TotalIsSumOfCompleted ==
    (mode = "metrics" /\ mon.completed) => mon.total_api_calls = mon.passed

\* the same for the runs that start no phase twice: problem validation only
C27_TotalOfProblemOnlyRun ==
    (mode = "metrics" /\ mon.completed /\ problem_only) => mon.total_api_calls = mon.passed

C28_WitnessResumes ==
    /\ mode = "sessions"
    /\ ev.call.problem = 2
    /\ ev.call.nth = 2
    /\ ev.call.resume # None

\* the score (in tenths) and verdict a webhook evaluation returns for a
\* threshold and a problem_only flag
VerdictFor(thr, only) ==
    IF 60 < thr THEN <<60, TRUE>>
    ELSE IF only THEN <<60, FALSE>>
    ELSE <<64, 64 < thr>>

\* C29: the score and eliminated fields WebhookOrchestrator.evaluate returns
\* are a function of the threshold and problem_only alone: every evaluation
\* with the same two values returns the same score and verdict, whatever
\* the agents wrote to memory, whichever triggers failed and whichever
\* waits timed out.
C29_VerdictFromThresholdAlone ==
    (mode = "webhook" /\ Returned) =>
        <<wh.score, wh.eliminated>> = VerdictFor(threshold, problem_only)

\* a full evaluation that returned although no phase was seen complete
C29_Witness ==
    /\ mode = "webhook"
    /\ Returned
    /\ ~problem_only
    /\ wh.phases_completed = <<>>
    /\ ~wh.last.ok

\* a full evaluation with the same threshold in which every phase was listed
C29_WitnessAllListed ==
    /\ mode = "webhook"
    /\ Returned
    /\ ~problem_only
    /\ ~wh.eliminated
    /\ Len(wh.phases_completed) = 9

\* the scores from 0 to 10, in tenths
ScoreRange == 0..100

\* C30: every score the direct and the sub-agent orchestrator report
\* (problem_score, solution_score, total_score) lies between 0 and 10,
\* whatever text the scoring agent returned.
C30_ScoresInRange ==
    /\ mode \in DirectModes =>
          /\ pv.problem_score \in ScoreRange
          /\ sv.solution_score \in ScoreRange
          /\ results.total_score \in ScoreRange
    /\ mode = "subagent" => sub.total_score \in ScoreRange

====
